---- MODULE Spec2Model ----
(***************************************************************************)
(* Model of the Sensirion sensor drivers (SCD4x CO2 family, SGP40 VOC      *)
(* chip) and of the shared transaction engine in sensirion.rs.             *)
(*                                                                         *)
(* A driver call is one atomic action: it issues its bus transaction(s),   *)
(* receives the bus outcome (an input chosen by the environment), checks   *)
(* the checksums and decodes.  The record of the call (operation, bus      *)
(* traffic, result) is the state; Return hands control back to the caller. *)
(***************************************************************************)
EXTENDS Integers, Sequences, FiniteSets, TLC

VARIABLES
    pc,         \* "idle": the caller may call; "done": a call has returned
    op,         \* name of the driver operation of the current call
    args,       \* the arguments of the current call (a sequence)
    tx,         \* the bus transactions the current call issued, in order
    answer,     \* what the bus did in the current call: success or its
                \* error, and the bytes it put into the read buffer
    crcEvals,   \* number of check_crc evaluations made by the current call
    result,     \* the value the current call returned
    last        \* history: the tag of the result of the call before the
                \* current one, "none" before the first call

vars == <<pc, op, args, tx, answer, crcEvals, result, last>>

----------------------------------------------------------------------------
(* Bounds of the model *)

\* a response checksum byte arrives intact (0) or with bit f-1 flipped,
\* f in 1..MaxFlip
MaxFlip == 2

\* conversion inputs are taken up to MaxStep steps around each base value
MaxStep == 3

----------------------------------------------------------------------------
(* Machine integers *)

Byte == 0..255

\* u8 ^ u8, bit by bit
Xor8(a, b) ==
      ((a + b) % 2)
    + ((a \div 2 + b \div 2) % 2) * 2
    + ((a \div 4 + b \div 4) % 2) * 4
    + ((a \div 8 + b \div 8) % 2) * 8
    + ((a \div 16 + b \div 16) % 2) * 16
    + ((a \div 32 + b \div 32) % 2) * 32
    + ((a \div 64 + b \div 64) % 2) * 64
    + ((a \div 128 + b \div 128) % 2) * 128

\* u16::from_be_bytes
from_be_bytes(b0, b1) == b0 * 256 + b1

\* u16::to_be_bytes
to_be_bytes(w) == <<w \div 256, w % 256>>

----------------------------------------------------------------------------
(* f32: IEEE 754 binary32 with round-to-nearest-even.  A finite value is   *)
(* sign * m * 2^e with m = 0 (zero) or 2^23 <= m < 2^24.  All intermediate *)
(* integers stay below 2^31.  Infinities, NaN and subnormal numbers are    *)
(* outside the ranges that the model's inputs reach.                       *)

F32(sign, m, e) == [sign |-> sign, m |-> m, e |-> e]
F32Zero == F32(1, 0, 0)

\* number of bits of a natural number
RECURSIVE BitLen(_)
BitLen(n) ==
    IF n >= 65536 THEN 16 + BitLen(n \div 65536)
    ELSE IF n >= 256 THEN 8 + BitLen(n \div 256)
    ELSE IF n >= 16 THEN 4 + BitLen(n \div 16)
    ELSE IF n >= 4 THEN 2 + BitLen(n \div 4)
    ELSE IF n >= 2 THEN 2
    ELSE n

\* the 24-bit quotient q of an exact result and the comparison of the rest
\* with half a unit in the last place (-1 below, 0 tie, 1 above), rounded to
\* nearest, ties to even
F32Round(sign, q, e, cmp) ==
    LET up == (cmp = 1) \/ (cmp = 0 /\ (q % 2) = 1)
        m == IF up THEN q + 1 ELSE q
    IN IF m = 16777216 THEN F32(sign, 8388608, e + 1) ELSE F32(sign, m, e)

\* comparison of a rest r with half of 2^t (t >= 1)
HalfCmp(r, t) ==
    IF r > 2^(t - 1) THEN 1 ELSE IF r = 2^(t - 1) THEN 0 ELSE -1

\* the f32 nearest to sign * n * 2^e, for a natural n < 2^31
F32Norm(sign, n, e) ==
    IF n = 0 THEN F32Zero
    ELSE LET t == BitLen(n) - 24 IN
         IF t <= 0 THEN F32(sign, n * (2^(0 - t)), e + t)
         ELSE F32Round(sign, n \div (2^t), e + t, HalfCmp(n % (2^t), t))

\* an integer as f32 (exact below 2^24, as every u16 is)
F32FromInt(n) == IF n < 0 THEN F32Norm(-1, 0 - n, 0) ELSE F32Norm(1, n, 0)

\* a * b
F32Mul(a, b) ==
    IF a.m = 0 \/ b.m = 0 THEN F32Zero
    ELSE
    LET ah == a.m \div 4096
        al == a.m % 4096
        bh == b.m \div 4096
        bl == b.m % 4096
        c1 == ah * bl + al * bh + (al * bl) \div 4096
        top == ah * bh + c1 \div 4096
        low == (c1 % 4096) * 4096 + ((al * bl) % 4096)
        \* the exact product of the mantissas is top * 2^24 + low
        sign == a.sign * b.sign
        e == a.e + b.e
    IN IF top >= 8388608
       THEN F32Round(sign, top, e + 24, HalfCmp(low, 24))
       ELSE F32Round(sign, top * 2 + low \div 8388608, e + 23,
                     HalfCmp(low % 8388608, 23))

\* long division of r * 2^k by d (r < d < 2^24): quotient bits are appended,
\* six at a time while that leaves the quotient below 2^25 and then one at
\* a time, until the quotient has 25 bits
RECURSIVE DivBits(_, _, _, _)
DivBits(q, r, d, k) ==
    IF q >= 16777216 THEN <<q, r, k>>
    ELSE IF q < 524288
         THEN DivBits(q * 64 + ((r * 64) \div d), (r * 64) % d, d, k + 6)
    ELSE IF 2 * r >= d THEN DivBits(2 * q + 1, 2 * r - d, d, k + 1)
    ELSE DivBits(2 * q, 2 * r, d, k + 1)

\* a / b, b not zero
F32Div(a, b) ==
    IF a.m = 0 THEN F32Zero
    ELSE
    LET qrk == DivBits(a.m \div b.m, a.m % b.m, b.m, 0)
        q == qrk[1]
        r == qrk[2]
        k == qrk[3]
        \* a.m / b.m = (q + r / b.m) * 2^-k with 2^24 <= q < 2^25
        cmp == IF (q % 2) = 0 THEN -1 ELSE IF r > 0 THEN 1 ELSE 0
    IN F32Round(a.sign * b.sign, q \div 2, a.e - b.e - k + 1, cmp)

\* n shifted right by d bits, the lowest bit kept set if any bit set was
\* shifted out (sticky)
ShiftSticky(n, d) ==
    IF d >= 31 THEN (IF n > 0 THEN 1 ELSE 0)
    ELSE (n \div (2^d))
         + (IF (n % (2^d)) > 0 /\ ((n \div (2^d)) % 2) = 0 THEN 1 ELSE 0)

\* big + small for |big| >= |small|, with three extra bits
F32AddOrdered(big, small) ==
    LET A == big.m * 8
        B == ShiftSticky(small.m * 8, big.e - small.e)
        S == IF big.sign = small.sign THEN A + B ELSE A - B
    IN F32Norm(big.sign, S, big.e - 3)

\* |a| >= |b|
F32AbsGeq(a, b) ==
    \/ b.m = 0
    \/ a.m # 0 /\ (a.e > b.e \/ (a.e = b.e /\ a.m >= b.m))

\* a + b
F32Add(a, b) ==
    IF a.m = 0 THEN b
    ELSE IF b.m = 0 THEN a
    ELSE IF F32AbsGeq(a, b) THEN F32AddOrdered(a, b)
    ELSE F32AddOrdered(b, a)

\* a <= b
F32Leq(a, b) ==
    IF a.sign = 1 /\ b.sign = 1 THEN F32AbsGeq(b, a)
    ELSE IF a.sign = -1 /\ b.sign = -1 THEN F32AbsGeq(a, b)
    ELSE IF a.sign = -1 THEN TRUE
    ELSE a.m = 0 /\ b.m = 0

\* the integer part of |a|, for |a| < 2^24
F32Trunc(a) == IF a.e >= 0 THEN a.m * (2^(a.e))
               ELSE IF a.e <= -24 THEN 0 ELSE a.m \div (2^(0 - a.e))

\* TRUE iff a is an integer
F32IsInt(a) == a.e >= 0 \/ (a.e > -24 /\ (a.m % (2^(0 - a.e))) = 0)

\* f32::floor as an integer, for |a| < 2^24
F32Floor(a) ==
    IF a.sign = 1 THEN F32Trunc(a)
    ELSE IF F32IsInt(a) THEN 0 - F32Trunc(a)
    ELSE 0 - F32Trunc(a) - 1

\* mutant of F32AsU16: the cast wraps modulo 2^16 instead of saturating
F32AsU16Wrap(a) ==
    IF a.sign = -1 THEN (65536 - (F32Trunc(a) % 65536)) % 65536
    ELSE F32Trunc(a) % 65536

\* `as u16`: towards zero, saturating at 0 and 65535
F32AsU16(a) ==
    IF a.m = 0 \/ a.sign = -1 THEN 0
    ELSE IF a.e > -8 THEN 65535
    ELSE F32Trunc(a)

----------------------------------------------------------------------------
(* sensirion.rs: checksum *)

\* mutant of crc_shift: the polynomial is never applied
crc_shift_no_poly(c) == (c * 2) % 256

\* one iteration of the inner loop of Sensor::crc
crc_shift(c) ==
    IF (c \div 128) % 2 # 0
    THEN Xor8((c * 2) % 256, 49)
    ELSE (c * 2) % 256

RECURSIVE crc_shifts(_, _)
crc_shifts(c, n) == IF n = 0 THEN c ELSE crc_shifts(crc_shift(c), n - 1)

\* the eight iterations of the inner loop of Sensor::crc, for each value of
\* the accumulator
crc_shift8 == [c \in Byte |-> crc_shifts(c, 8)]

\* the body of the outer loop of Sensor::crc for one data byte
crc_byte(c, byte) == crc_shift8[Xor8(c, byte)]

\* mutant of crc: the accumulator starts at 0
crc_init_zero(data) == crc_byte(crc_byte(0, data[1]), data[2])

\* Sensor::crc
crc(data) == crc_byte(crc_byte(255, data[1]), data[2])

\* Sensor::check_crc: TRUE for Ok(()), FALSE for Err(InvalidCrc)
check_crc(data) == ~(crc(<<data[1], data[2]>>) # data[3])

----------------------------------------------------------------------------
(* The bus (embedded_hal::i2c::I2c) and the values a call returns *)

\* what one bus call does: it succeeds and fills the read buffer with data,
\* or it fails with the transport's own error value (the buffer then holds
\* whatever the transport left in it)
BusOk(data) == [ok |-> TRUE, err |-> "none", data |-> data]
BusErr(e, data) == [ok |-> FALSE, err |-> e, data |-> data]

\* Result<T, Error<E>>
Ok(v) == [tag |-> "Ok", val |-> v]
ErrInvalidResponse == [tag |-> "InvalidResponse", val |-> "none"]
ErrInvalidCrc == [tag |-> "InvalidCrc", val |-> "none"]
ErrCommandFailed == [tag |-> "CommandFailed", val |-> "none"]
ErrI2c(e) == [tag |-> "I2c", val |-> e]

\* one transaction on the bus: the address, the bytes of the write phase
\* (empty: no write phase) and the length of the read phase (0: none)
Transaction(addr, wr, rdlen) == [addr |-> addr, write |-> wr, read |-> rdlen]

\* what a call of the engine leaves behind
Outcome(t, n, res) == [tx |-> t, crcEvals |-> n, result |-> res]

----------------------------------------------------------------------------
(* sensirion.rs: transaction engine *)

\* mutant of read_word: the checksum is checked before the bus result
read_word_crc_first(addr, cmd, bus) ==
    LET t == <<Transaction(addr, cmd, 3)>> IN
    IF ~check_crc(bus.data) THEN Outcome(t, 1, ErrInvalidCrc)
    ELSE IF ~bus.ok THEN Outcome(t, 1, ErrI2c(bus.err))
    ELSE Outcome(t, 1, Ok(from_be_bytes(bus.data[1], bus.data[2])))

\* Sensor::read_word
read_word(addr, cmd, bus) ==
    LET t == <<Transaction(addr, cmd, 3)>> IN
    IF ~bus.ok THEN Outcome(t, 0, ErrI2c(bus.err))
    ELSE IF ~check_crc(bus.data) THEN Outcome(t, 1, ErrInvalidCrc)
    ELSE Outcome(t, 1, Ok(from_be_bytes(bus.data[1], bus.data[2])))

\* the 3-byte chunk number i (from 1) of a buffer
chunk(buf, i) == SubSeq(buf, 3 * i - 2, 3 * i)

\* mutant of crc_loop: the last chunk is not checked
RECURSIVE crc_loop_short(_, _, _)
crc_loop_short(buf, i, n) ==
    IF i >= n THEN n - 1
    ELSE IF ~check_crc(chunk(buf, i)) THEN i
    ELSE crc_loop_short(buf, i + 1, n)

\* the for loop of Sensor::read_three_words: the number of check_crc
\* evaluations made, which stops at the first chunk that fails
RECURSIVE crc_loop(_, _, _)
crc_loop(buf, i, n) ==
    IF i > n THEN n
    ELSE IF ~check_crc(chunk(buf, i)) THEN i
    ELSE crc_loop(buf, i + 1, n)

\* TRUE iff the for loop of Sensor::read_three_words left through `?`
crc_loop_failed(buf, n) ==
    ~check_crc(chunk(buf, crc_loop(buf, 1, n)))

\* mutant of read_three_words: a failed call is issued a second time
read_three_words_retry(addr, cmd, bus) ==
    LET t == <<Transaction(addr, cmd, 9)>> IN
    IF ~bus.ok THEN Outcome(t \o t, 0, ErrI2c(bus.err))
    ELSE IF crc_loop_failed(bus.data, 3)
         THEN Outcome(t \o t, crc_loop(bus.data, 1, 3), ErrInvalidCrc)
    ELSE Outcome(t, 3,
                 Ok(<<from_be_bytes(bus.data[1], bus.data[2]),
                      from_be_bytes(bus.data[4], bus.data[5]),
                      from_be_bytes(bus.data[7], bus.data[8])>>))

\* Sensor::read_three_words
read_three_words(addr, cmd, bus) ==
    LET t == <<Transaction(addr, cmd, 9)>> IN
    IF ~bus.ok THEN Outcome(t, 0, ErrI2c(bus.err))
    ELSE IF crc_loop_failed(bus.data, 3)
         THEN Outcome(t, crc_loop(bus.data, 1, 3), ErrInvalidCrc)
    ELSE Outcome(t, 3,
                 Ok(<<from_be_bytes(bus.data[1], bus.data[2]),
                      from_be_bytes(bus.data[4], bus.data[5]),
                      from_be_bytes(bus.data[7], bus.data[8])>>))

----------------------------------------------------------------------------
(* The engine functions that the drivers call and sensirion.rs does not    *)
(* define, after sections 3 and 4.2 of the specification: a transaction is *)
(* a write phase (opcode, then argument wire words) and a read phase.      *)

\* a command argument on the wire: 2 bytes big-endian and their checksum
arg_word(w) == to_be_bytes(w) \o <<crc(to_be_bytes(w))>>

\* Sensor::send_command: write the 2-byte opcode only, no read
send_command(addr, cmd, bus) ==
    LET t == <<Transaction(addr, cmd, 0)>> IN
    IF ~bus.ok THEN Outcome(t, 0, ErrI2c(bus.err))
    ELSE Outcome(t, 0, Ok(<<>>))

\* Sensor::read_response_word: read one wire word, no write phase
read_response_word(addr, bus) ==
    LET t == <<Transaction(addr, <<>>, 3)>> IN
    IF ~bus.ok THEN Outcome(t, 0, ErrI2c(bus.err))
    ELSE IF ~check_crc(bus.data) THEN Outcome(t, 1, ErrInvalidCrc)
    ELSE Outcome(t, 1, Ok(from_be_bytes(bus.data[1], bus.data[2])))

\* Sensor::execute_command_0a1r: write the opcode, read one wire word
execute_command_0a1r(addr, cmd, bus) == read_word(addr, cmd, bus)

\* Sensor::execute_command_0a3r: write the opcode, read three wire words
execute_command_0a3r(addr, cmd, bus) == read_three_words(addr, cmd, bus)

\* Sensor::execute_command_1a1r: write the opcode and one argument word,
\* read one wire word
execute_command_1a1r(addr, cmd, arg, bus) ==
    read_word(addr, cmd \o arg_word(arg), bus)

\* Sensor::one_word_command: write the opcode, read one wire word
one_word_command(addr, cmd, bus) == read_word(addr, cmd, bus)

\* Sensor::three_words_command: write the opcode, read three wire words
three_words_command(addr, cmd, bus) == read_three_words(addr, cmd, bus)

\* Sensor::one_word_command_with_args: write the opcode and two argument
\* words, read one wire word
one_word_command_with_args(addr, cmd, arg0, arg1, bus) ==
    read_word(addr, cmd \o arg_word(arg0) \o arg_word(arg1), bus)

----------------------------------------------------------------------------
(* sgp40/commands.rs, sgp40/mod.rs: the VOC chip *)

SGP40_ADDR == \H59

CMD_GET_SERIAL_NUMBER == <<\H36, \H82>>
CMD_TURN_HEATER_OFF == <<\H36, \H15>>
CMD_EXECUTE_SELF_TEST == <<\H28, \H0e>>
CMD_MEASURE_RAW_SIGNAL == <<\H26, \H02>>

\* mutant of self_test_match: the whole word is matched, not its top byte
self_test_match_word(word) ==
    CASE word = \Hd400 -> Ok(TRUE)
      [] word = \H4b00 -> Ok(FALSE)
      [] OTHER -> ErrInvalidResponse

\* the match of SGP40::self_test
self_test_match(word) ==
    CASE word \div 256 = \Hd4 -> Ok(TRUE)
      [] word \div 256 = \H4b -> Ok(FALSE)
      [] OTHER -> ErrInvalidResponse

\* SGP40::self_test
SGP40_self_test(bus) ==
    LET out == one_word_command(SGP40_ADDR, CMD_EXECUTE_SELF_TEST, bus) IN
    \* `?`: an error of the engine is returned as it is
    IF out.result.tag # "Ok" THEN out
    ELSE [out EXCEPT !.result = self_test_match(out.result.val)]

\* (words[0] as u64) << 32 | (words[1] as u64) << 16 | (words[2] as u64),
\* kept as its three 16-bit digits, most significant first
serial_number(words) == Ok(<<words[1], words[2], words[3]>>)

\* SGP40::get_serial_number
SGP40_get_serial_number(bus) ==
    LET out == three_words_command(SGP40_ADDR, CMD_GET_SERIAL_NUMBER, bus) IN
    \* `?`: an error of the engine is returned as it is
    IF out.result.tag # "Ok" THEN out
    ELSE [out EXCEPT !.result = serial_number(out.result.val)]

\* SGP40::turn_heater_off
SGP40_turn_heater_off(bus) ==
    send_command(SGP40_ADDR, CMD_TURN_HEATER_OFF, bus)

\* mutant of rh_to_ticks: the scaled value is rounded to the nearest integer
rh_to_ticks_rounded(rh) ==
    F32AsU16(F32Add(F32Div(F32Mul(rh, F32FromInt(65535)), F32FromInt(100)),
                    F32Norm(1, 1, -1)))

\* SGP40::rh_to_ticks
rh_to_ticks(rh) ==
    F32AsU16(F32Div(F32Mul(rh, F32FromInt(65535)), F32FromInt(100)))

\* SGP40::temp_to_ticks
temp_to_ticks(temp) ==
    F32AsU16(F32Div(F32Mul(F32Add(temp, F32FromInt(45)), F32FromInt(65535)),
                    F32FromInt(175)))

\* SGP40::measure_raw_signal
SGP40_measure_raw_signal(humidity_percent, temp_celsius, bus) ==
    LET rh_ticks == rh_to_ticks(humidity_percent)
        temp_ticks == temp_to_ticks(temp_celsius)
    IN one_word_command_with_args(SGP40_ADDR, CMD_MEASURE_RAW_SIGNAL,
                                  rh_ticks, temp_ticks, bus)

----------------------------------------------------------------------------
(* scd4x/commands.rs, scd4x/mod.rs: the CO2 family *)

SCD4X_ADDR == \H62

READ_MEASUREMENT == <<\Hec, \H05>>
PERFORM_FORCED_RECALIBRATION == <<\H36, \H2f>>
GET_SERIAL_NUMBER == <<\H36, \H82>>
PERFORM_SELF_TEST == <<\H36, \H39>>
GET_SENSOR_VARIANT == <<\H20, \H2f>>

\* SCD4x::get_serial_number
SCD4x_get_serial_number(bus) ==
    LET out == execute_command_0a3r(SCD4X_ADDR, GET_SERIAL_NUMBER, bus) IN
    \* `?`: an error of the engine is returned as it is
    IF out.result.tag # "Ok" THEN out
    ELSE [out EXCEPT !.result = serial_number(out.result.val)]

\* SCD4x::start_self_test
SCD4x_start_self_test(bus) ==
    LET out == send_command(SCD4X_ADDR, PERFORM_SELF_TEST, bus) IN
    IF out.result.tag = "Ok" THEN [out EXCEPT !.result = Ok(<<>>)] ELSE out

\* mutant of self_test_result: only the low byte of the status is tested
self_test_result_low(status) == Ok(status % 256 = 0)

\* Ok(status == 0) of SCD4x::read_self_test_result
self_test_result(status) == Ok(status = 0)

\* SCD4x::read_self_test_result
SCD4x_read_self_test_result(bus) ==
    LET out == read_response_word(SCD4X_ADDR, bus) IN
    \* `?`: an error of the engine is returned as it is
    IF out.result.tag # "Ok" THEN out
    ELSE [out EXCEPT !.result = self_test_result(out.result.val)]

\* mutant of variant_match: the status is shifted by 8 bits, not by 12
variant_match_shift8(status) ==
    CASE status \div 256 = 0 -> Ok("SCD40")
      [] status \div 256 = 1 -> Ok("SCD41")
      [] status \div 256 = 5 -> Ok("SCD43")
      [] OTHER -> ErrInvalidResponse

\* the match of SCD4x::get_sensor_variant
variant_match(status) ==
    CASE status \div 4096 = 0 -> Ok("SCD40")
      [] status \div 4096 = 1 -> Ok("SCD41")
      [] status \div 4096 = 5 -> Ok("SCD43")
      [] OTHER -> ErrInvalidResponse

\* SCD4x::get_sensor_variant
SCD4x_get_sensor_variant(bus) ==
    LET out == execute_command_0a1r(SCD4X_ADDR, GET_SENSOR_VARIANT, bus) IN
    \* `?`: an error of the engine is returned as it is
    IF out.result.tag # "Ok" THEN out
    ELSE [out EXCEPT !.result = variant_match(out.result.val)]

\* mutant of measurement: the raw values are scaled by 65536, not by 65535
measurement_65536(response) ==
    Ok([co2_ppm |-> response[1],
        temp_celsius |->
            F32Add(F32FromInt(-45),
                   F32Mul(F32FromInt(175),
                          F32Div(F32FromInt(response[2]), F32FromInt(65536)))),
        humidity_percent |->
            F32Div(F32Mul(F32FromInt(100), F32FromInt(response[3])),
                   F32FromInt(65536)),
        temp_raw |-> response[2],
        humidity_raw |-> response[3]])

\* the Measurement built by SCD4x::read_measurement
measurement(response) ==
    Ok([co2_ppm |-> response[1],
        temp_celsius |->
            F32Add(F32FromInt(-45),
                   F32Mul(F32FromInt(175),
                          F32Div(F32FromInt(response[2]), F32FromInt(65535)))),
        humidity_percent |->
            F32Div(F32Mul(F32FromInt(100), F32FromInt(response[3])),
                   F32FromInt(65535)),
        temp_raw |-> response[2],
        humidity_raw |-> response[3]])

\* SCD4x::read_measurement
SCD4x_read_measurement(bus) ==
    LET out == execute_command_0a3r(SCD4X_ADDR, READ_MEASUREMENT, bus) IN
    \* `?`: an error of the engine is returned as it is
    IF out.result.tag # "Ok" THEN out
    ELSE [out EXCEPT !.result = measurement(out.result.val)]

\* ((val as i32) - 0x8000) as i16
as_i16(n) == ((n + 32768) % 65536) - 32768

\* mutant of frc_correction: the failure sentinel is not tested
frc_correction_no_sentinel(val) == Ok(as_i16(val - \H8000))

\* the if of SCD4x::perform_forced_recalibration
frc_correction(val) ==
    IF val = \HFFFF THEN ErrCommandFailed ELSE Ok(as_i16(val - \H8000))

\* SCD4x::perform_forced_recalibration
SCD4x_perform_forced_recalibration(target_co2_ppm, bus) ==
    LET out == execute_command_1a1r(SCD4X_ADDR, PERFORM_FORCED_RECALIBRATION,
                                    target_co2_ppm, bus) IN
    \* `?`: an error of the engine is returned as it is
    IF out.result.tag # "Ok" THEN out
    ELSE [out EXCEPT !.result = frc_correction(out.result.val)]

----------------------------------------------------------------------------
(* The environment: what the bus answers and what the caller passes *)

\* a byte with bit f-1 flipped (f = 0: unchanged)
flip_bit(b, f) == IF f = 0 THEN b ELSE Xor8(b, 2^(f - 1))

\* the wire word of w as the device sends it, its checksum byte damaged on
\* the way if f > 0
wire_word(w, f) ==
    <<w \div 256, w % 256, flip_bit(crc(to_be_bytes(w)), f)>>

\* every top byte, with a choice of low bytes
LowBytes == {\H00, \H01, \H40, \H41, \Hce, \Hfe, \Hff}
Words1 == {from_be_bytes(hi, lo) : hi \in Byte, lo \in LowBytes}

\* the words of three-word responses
Words3 == {\H01f4, \H6667, \H5eb9, \H0000, \Hffff}

BusErrors == {"NoAcknowledge", "ArbitrationLoss"}

\* what a failed read may leave in a 3-byte buffer
Left1 == {<<0, 0, 0>>, wire_word(\Hbeef, 0), wire_word(\Hbeef, 1)}

\* outcomes of a bus call that reads one wire word
Bus1 ==
    {BusOk(wire_word(w, f)) : w \in Words1, f \in 0..MaxFlip}
    \cup {BusErr(e, d) : e \in BusErrors, d \in Left1}

\* the same over a few words only
Bus1Few ==
    {BusOk(wire_word(w, f)) : w \in Words3, f \in 0..MaxFlip}
    \cup {BusErr(e, d) : e \in BusErrors, d \in Left1}

Wire3 == {wire_word(w, f) : w \in Words3, f \in 0..MaxFlip}

\* outcomes of a bus call that reads three wire words
Bus3 ==
    {BusOk(a \o b \o c) : a \in Wire3, b \in Wire3, c \in Wire3}
    \cup {BusOk(wire_word(w, 0) \o wire_word(w, 0) \o wire_word(65535 - w, 0)) :
            w \in Words1}
    \cup {BusErr(e, a \o b \o b) : e \in BusErrors, a \in Left1, b \in Left1}

\* outcomes of a bus call that only writes
Bus0 == {BusOk(<<>>)} \cup {BusErr(e, <<>>) : e \in BusErrors}

\* target concentrations passed to forced recalibration
Targets == {0, 400, 65535}

\* the f32 value n * 2^-s
Dyadic(n, s) ==
    IF n < 0 THEN F32Norm(-1, 0 - n, 0 - s) ELSE F32Norm(1, n, 0 - s)

\* humidity and temperature values passed to measure_raw_signal
\* (in range, with and without a fraction in the scaled value, and outside)
Humidities == {F32FromInt(0), F32FromInt(50), F32FromInt(100), Dyadic(133, 2),
               Dyadic(1, 1), F32FromInt(120)}
Temperatures == {F32FromInt(-45), F32FromInt(25), F32FromInt(130),
                 Dyadic(-83, 1), F32FromInt(-50)}

----------------------------------------------------------------------------
(* The drivers as a state machine *)

Init ==
    /\ pc = "idle"
    /\ op = "none"
    /\ args = <<>>
    /\ tx = <<>>
    /\ answer = BusOk(<<>>)
    /\ crcEvals = 0
    /\ result = Ok(<<>>)
    /\ last = "none"

\* Each call is one step: the caller passes the arguments, the bus answers,
\* and the call returns.

\* the engine called directly, on either chip and with any of its commands
Chips == {SGP40_ADDR, SCD4X_ADDR}
Cmds1 == {CMD_EXECUTE_SELF_TEST, GET_SENSOR_VARIANT}
Cmds3 == {CMD_GET_SERIAL_NUMBER, READ_MEASUREMENT}

ReadWord ==
    /\ pc = "idle"
    /\ \E addr \in Chips, cmd \in Cmds1, bus \in Bus1 :
        \E out \in {read_word(addr, cmd, bus)} :
        /\ pc' = "done"
        /\ op' = "sensor.read_word"
        /\ args' = <<addr, cmd>>
        /\ tx' = out.tx
        /\ answer' = bus
        /\ crcEvals' = out.crcEvals
        /\ result' = out.result
        /\ last' = last

ReadThreeWords ==
    /\ pc = "idle"
    /\ \E addr \in Chips, cmd \in Cmds3, bus \in Bus3 :
        \E out \in {read_three_words(addr, cmd, bus)} :
        /\ pc' = "done"
        /\ op' = "sensor.read_three_words"
        /\ args' = <<addr, cmd>>
        /\ tx' = out.tx
        /\ answer' = bus
        /\ crcEvals' = out.crcEvals
        /\ result' = out.result
        /\ last' = last

SGP40SelfTest ==
    /\ pc = "idle"
    /\ \E bus \in Bus1 :
        \E out \in {SGP40_self_test(bus)} :
        /\ pc' = "done"
        /\ op' = "sgp40.self_test"
        /\ args' = <<>>
        /\ tx' = out.tx
        /\ answer' = bus
        /\ crcEvals' = out.crcEvals
        /\ result' = out.result
        /\ last' = last

SGP40GetSerialNumber ==
    /\ pc = "idle"
    /\ \E bus \in Bus3 :
        \E out \in {SGP40_get_serial_number(bus)} :
        /\ pc' = "done"
        /\ op' = "sgp40.get_serial_number"
        /\ args' = <<>>
        /\ tx' = out.tx
        /\ answer' = bus
        /\ crcEvals' = out.crcEvals
        /\ result' = out.result
        /\ last' = last

SGP40TurnHeaterOff ==
    /\ pc = "idle"
    /\ \E bus \in Bus0 :
        \E out \in {SGP40_turn_heater_off(bus)} :
        /\ pc' = "done"
        /\ op' = "sgp40.turn_heater_off"
        /\ args' = <<>>
        /\ tx' = out.tx
        /\ answer' = bus
        /\ crcEvals' = out.crcEvals
        /\ result' = out.result
        /\ last' = last

SGP40MeasureRawSignal ==
    /\ pc = "idle"
    /\ \E h \in Humidities, t \in Temperatures, bus \in Bus1Few :
        \E out \in {SGP40_measure_raw_signal(h, t, bus)} :
        /\ pc' = "done"
        /\ op' = "sgp40.measure_raw_signal"
        /\ args' = <<h, t>>
        /\ tx' = out.tx
        /\ answer' = bus
        /\ crcEvals' = out.crcEvals
        /\ result' = out.result
        /\ last' = last

SCD4xGetSerialNumber ==
    /\ pc = "idle"
    /\ \E bus \in Bus3 :
        \E out \in {SCD4x_get_serial_number(bus)} :
        /\ pc' = "done"
        /\ op' = "scd4x.get_serial_number"
        /\ args' = <<>>
        /\ tx' = out.tx
        /\ answer' = bus
        /\ crcEvals' = out.crcEvals
        /\ result' = out.result
        /\ last' = last

SCD4xStartSelfTest ==
    /\ pc = "idle"
    /\ \E bus \in Bus0 :
        \E out \in {SCD4x_start_self_test(bus)} :
        /\ pc' = "done"
        /\ op' = "scd4x.start_self_test"
        /\ args' = <<>>
        /\ tx' = out.tx
        /\ answer' = bus
        /\ crcEvals' = out.crcEvals
        /\ result' = out.result
        /\ last' = last

SCD4xReadSelfTestResult ==
    /\ pc = "idle"
    /\ \E bus \in Bus1 :
        \E out \in {SCD4x_read_self_test_result(bus)} :
        /\ pc' = "done"
        /\ op' = "scd4x.read_self_test_result"
        /\ args' = <<>>
        /\ tx' = out.tx
        /\ answer' = bus
        /\ crcEvals' = out.crcEvals
        /\ result' = out.result
        /\ last' = last

SCD4xGetSensorVariant ==
    /\ pc = "idle"
    /\ \E bus \in Bus1 :
        \E out \in {SCD4x_get_sensor_variant(bus)} :
        /\ pc' = "done"
        /\ op' = "scd4x.get_sensor_variant"
        /\ args' = <<>>
        /\ tx' = out.tx
        /\ answer' = bus
        /\ crcEvals' = out.crcEvals
        /\ result' = out.result
        /\ last' = last

SCD4xReadMeasurement ==
    /\ pc = "idle"
    /\ \E bus \in Bus3 :
        \E out \in {SCD4x_read_measurement(bus)} :
        /\ pc' = "done"
        /\ op' = "scd4x.read_measurement"
        /\ args' = <<>>
        /\ tx' = out.tx
        /\ answer' = bus
        /\ crcEvals' = out.crcEvals
        /\ result' = out.result
        /\ last' = last

SCD4xPerformForcedRecalibration ==
    /\ pc = "idle"
    /\ \E target \in Targets, bus \in Bus1 :
        \E out \in {SCD4x_perform_forced_recalibration(target, bus)} :
        /\ pc' = "done"
        /\ op' = "scd4x.perform_forced_recalibration"
        /\ args' = <<target>>
        /\ tx' = out.tx
        /\ answer' = bus
        /\ crcEvals' = out.crcEvals
        /\ result' = out.result
        /\ last' = last

\* the caller takes the result; the driver keeps nothing of the call (Sensor
\* holds the bus and the address only), the history keeps the result's tag
Return ==
    /\ pc = "done"
    /\ pc' = "idle"
    /\ op' = "none"
    /\ args' = <<>>
    /\ tx' = <<>>
    /\ answer' = BusOk(<<>>)
    /\ crcEvals' = 0
    /\ result' = Ok(<<>>)
    /\ last' = result.tag

Next ==
    \/ ReadWord
    \/ ReadThreeWords
    \/ SGP40SelfTest
    \/ SGP40GetSerialNumber
    \/ SGP40TurnHeaterOff
    \/ SGP40MeasureRawSignal
    \/ SCD4xGetSerialNumber
    \/ SCD4xStartSelfTest
    \/ SCD4xReadSelfTestResult
    \/ SCD4xGetSensorVariant
    \/ SCD4xReadMeasurement
    \/ SCD4xPerformForcedRecalibration
    \/ Return

Spec == Init /\ [][Next]_vars

----------------------------------------------------------------------------
(* The checksum as a pure function: any three bytes may be checked *)

\* a wire word with bit number bit (1..24, byte by byte) flipped, 0: none
flip_wire(wire, bit) ==
    IF bit = 0 THEN wire
    ELSE [i \in 1..3 |->
            IF i = ((bit - 1) \div 8) + 1
            THEN flip_bit(wire[i], ((bit - 1) % 8) + 1)
            ELSE wire[i]]

InitCrc ==
    /\ pc = "idle"
    /\ op = "none"
    /\ \E w \in Words1, bit \in 0..24 :
           args = <<flip_wire(wire_word(w, 0), bit), w, bit>>
    /\ tx = <<>>
    /\ answer = BusOk(<<>>)
    /\ crcEvals = 0
    /\ result = Ok(<<>>)
    /\ last = "none"

\* Sensor::check_crc applied to the three bytes
CheckCrc ==
    /\ pc = "idle"
    /\ pc' = "done"
    /\ op' = "check_crc"
    /\ crcEvals' = 1
    /\ result' = IF check_crc(args[1]) THEN Ok(<<>>) ELSE ErrInvalidCrc
    /\ UNCHANGED <<args, tx, answer, last>>

\* Sensor::crc applied to the two data bytes
Crc ==
    /\ pc = "idle"
    /\ pc' = "done"
    /\ op' = "crc"
    /\ result' = Ok(crc(<<args[1][1], args[1][2]>>))
    /\ UNCHANGED <<args, tx, answer, crcEvals, last>>

NextCrc == CheckCrc \/ Crc

SpecCrc == InitCrc /\ [][NextCrc]_vars

----------------------------------------------------------------------------
(* The tick conversions as pure functions of two inputs x <= y *)

\* the inputs as pairs <<n, s>> standing for n * 2^-s: quarters from -60 to
\* 140, the f32 values next to the ends and the middles of the ranges, and
\* values far outside them
TickBases == {-45, 0, 25, 50, 100, 130}
TickInputs ==
    {<<k, 2>> : k \in -240..560}
    \cup {<<b * 65536 + i, 16>> : b \in TickBases, i \in (0 - MaxStep)..MaxStep}
    \cup {<<k, -10>> : k \in (0 - MaxStep)..MaxStep}

InitTicks ==
    /\ pc = "idle"
    /\ op = "none"
    /\ \E in \in TickInputs, d \in 0..MaxStep :
           args = <<Dyadic(in[1], in[2]), Dyadic(in[1] + d, in[2])>>
    /\ tx = <<>>
    /\ answer = BusOk(<<>>)
    /\ crcEvals = 0
    /\ result = Ok(<<>>)
    /\ last = "none"

\* SGP40::rh_to_ticks applied to both inputs
RhToTicks ==
    /\ pc = "idle"
    /\ pc' = "done"
    /\ op' = "rh_to_ticks"
    /\ result' = Ok(<<rh_to_ticks(args[1]), rh_to_ticks(args[2])>>)
    /\ UNCHANGED <<args, tx, answer, crcEvals, last>>

\* SGP40::temp_to_ticks applied to both inputs
TempToTicks ==
    /\ pc = "idle"
    /\ pc' = "done"
    /\ op' = "temp_to_ticks"
    /\ result' = Ok(<<temp_to_ticks(args[1]), temp_to_ticks(args[2])>>)
    /\ UNCHANGED <<args, tx, answer, crcEvals, last>>

NextTicks == RhToTicks \/ TempToTicks

SpecTicks == InitTicks /\ [][NextTicks]_vars

----------------------------------------------------------------------------
(* Properties *)

Done(name) == pc = "done" /\ op = name

\* the number of wire words in the read buffer, the checksum of word i as the
\* reference computes it, and the value of word i
NWords == Len(answer.data) \div 3
WordGood(i) ==
    answer.data[3 * i] = crc(<<answer.data[3 * i - 2], answer.data[3 * i - 1]>>)
WordValue(i) == answer.data[3 * i - 2] * 256 + answer.data[3 * i - 1]
AllGood == \A i \in 1..NWords : WordGood(i)

\* a call of the engine that reads wire words
IsQuery == pc = "done" /\ op \in {"sensor.read_word", "sensor.read_three_words"}

\* C1: a query whose bus call succeeded returns Ok only if every wire word
\* carries the checksum of its two data bytes, and then returns exactly the
\* big-endian values of the words in bus order; if any word, in whichever
\* position, carries a wrong checksum it returns InvalidCrc and no word.
\* The bytes 01 F4 33 66 67 A2 5E B9 3C give the words 01F4, 6667, 5EB9.
C1_QueryChecksums ==
    (IsQuery /\ answer.ok) =>
        /\ NWords \in {1, 3}
        /\ result.tag = "Ok" => AllGood
        /\ (AllGood /\ NWords = 1) => result = Ok(WordValue(1))
        /\ (AllGood /\ NWords = 3) =>
               result = Ok(<<WordValue(1), WordValue(2), WordValue(3)>>)
        /\ ~AllGood => result = ErrInvalidCrc
        /\ answer.data = <<\H01, \Hf4, \H33, \H66, \H67, \Ha2, \H5e, \Hb9, \H3c>>
               => result = Ok(<<\H01f4, \H6667, \H5eb9>>)

\* C1 witness: a three-word query whose first two words are good and whose
\* third word alone has a wrong checksum has returned InvalidCrc
C1_Witness ==
    /\ Done("sensor.read_three_words")
    /\ answer.ok
    /\ WordGood(1) /\ WordGood(2) /\ ~WordGood(3)
    /\ result = ErrInvalidCrc

\* C2: a call of the engine ends in exactly one of success, the transport
\* error and InvalidCrc; when the bus call fails the result is the bus's own
\* error value and no checksum has been evaluated, so InvalidCrc is never
\* reported for a failed bus call; a transport error is never reported when
\* the bus call succeeded.
C2_ExclusiveOutcomes ==
    pc = "done" =>
        /\ IsQuery => result.tag \in {"Ok", "I2c", "InvalidCrc"}
        /\ ~answer.ok => (result = ErrI2c(answer.err) /\ crcEvals = 0)
        /\ answer.ok => result.tag # "I2c"

\* C2 witness: the bus call of a query failed, leaving a word with a wrong
\* checksum in the buffer, and the query returned the bus's error
C2_Witness ==
    /\ IsQuery
    /\ ~answer.ok
    /\ ~AllGood
    /\ result = ErrI2c("NoAcknowledge")

\* a call that read one wire word with a good checksum
GoodWord(name) == Done(name) /\ answer.ok /\ NWords = 1 /\ WordGood(1)

\* C3: perform_forced_recalibration(target) issues one transaction that
\* writes the forced-recalibration opcode followed by the target as one
\* argument word and reads one word w; w = FFFF gives CommandFailed, every
\* other checksum-valid w gives Ok(w - 32768), which lies in -32768..32766
\* (7FCE gives -50).
C3_ForcedRecalibration ==
    Done("scd4x.perform_forced_recalibration") =>
        /\ Len(tx) = 1
        /\ tx[1].addr = \H62
        /\ tx[1].read = 3
        /\ Len(tx[1].write) = 5
        /\ SubSeq(tx[1].write, 1, 2) = <<\H36, \H2f>>
        /\ tx[1].write[3] * 256 + tx[1].write[4] = args[1]
        /\ tx[1].write[5] = crc(<<tx[1].write[3], tx[1].write[4]>>)
        /\ GoodWord("scd4x.perform_forced_recalibration") =>
            /\ WordValue(1) = \Hffff => result = ErrCommandFailed
            /\ WordValue(1) # \Hffff =>
                /\ result = Ok(WordValue(1) - 32768)
                /\ result.val \in -32768..32766
            /\ WordValue(1) = \H7fce => result = Ok(-50)

\* C3 witness: the response word 7FCE has been decoded to -50
C3_Witness ==
    /\ GoodWord("scd4x.perform_forced_recalibration")
    /\ args = <<400>>
    /\ answer.data = <<\H7f, \Hce, \H7b>>
    /\ result = Ok(-50)

\* C4: get_sensor_variant decodes the top 4 bits of the checksum-valid
\* status word, whatever the low 12 bits: 0000 gives SCD40, 0001 SCD41,
\* 0101 SCD43, and each of the 13 other values gives InvalidResponse.
C4_SensorVariant ==
    GoodWord("scd4x.get_sensor_variant") =>
        LET nibble == WordValue(1) \div 4096 IN
        /\ nibble = 0 => result = Ok("SCD40")
        /\ nibble = 1 => result = Ok("SCD41")
        /\ nibble = 5 => result = Ok("SCD43")
        /\ nibble \notin {0, 1, 5} => result = ErrInvalidResponse
        /\ answer.data = <<\H04, \H40, \H3f>> => result = Ok("SCD40")
        /\ answer.data = <<\H14, \H40, \H51>> => result = Ok("SCD41")
        /\ answer.data = <<\H54, \H41, \He9>> => result = Ok("SCD43")

\* C4 witness: the response 54 41 E9 has been decoded to SCD43
C4_Witness ==
    /\ GoodWord("scd4x.get_sensor_variant")
    /\ answer.data = <<\H54, \H41, \He9>>
    /\ result = Ok("SCD43")

\* C5: the VOC chip's self_test decodes the top byte of the checksum-valid
\* result word, whatever the low byte: D4 gives Ok(true), 4B gives Ok(false)
\* and every other value gives InvalidResponse.
C5_SelfTestByte ==
    GoodWord("sgp40.self_test") =>
        LET top == WordValue(1) \div 256 IN
        /\ top = \Hd4 => result = Ok(TRUE)
        /\ top = \H4b => result = Ok(FALSE)
        /\ top \notin {\Hd4, \H4b} => result = ErrInvalidResponse

\* C5 witness: a result word with top byte 4B and a low byte that is not
\* zero has been decoded to Ok(false)
C5_Witness ==
    /\ GoodWord("sgp40.self_test")
    /\ answer.data[1] = \H4b
    /\ answer.data[2] = \Hff
    /\ result = Ok(FALSE)

\* floor(v * 2^14) for an f32 v, and floor(n * 2^14 / 65535) for an integer n
Scaled14(v) == F32Floor(F32(v.sign, v.m, v.e + 14))
Exact14(n) == (n \div 65535) * 16384 + (((n % 65535) * 16384) \div 65535)
Near(a, b) == a - b \in {-1, 0, 1}

\* C6: read_measurement returns the three checksum-valid words w0, w1, w2
\* as CO2 = w0, temp_raw = w1, humidity_raw = w2, temperature
\* = -45 + 175 * w1 / 65535 and humidity = 100 * w2 / 65535, both to within
\* 2^-13 in f32; the words 01F4, 6667, 5EB9 give CO2 = 500,
\* floor(temperature * 100) = 2500 and floor(humidity * 100) = 3700.
C6_Measurement ==
    (Done("scd4x.read_measurement") /\ answer.ok /\ AllGood) =>
        /\ result.tag = "Ok"
        /\ result.val.co2_ppm = WordValue(1)
        /\ result.val.temp_raw = WordValue(2)
        /\ result.val.humidity_raw = WordValue(3)
        /\ Near(Scaled14(result.val.temp_celsius),
                Exact14(175 * WordValue(2) - 45 * 65535))
        /\ Near(Scaled14(result.val.humidity_percent),
                Exact14(100 * WordValue(3)))
        /\ <<WordValue(1), WordValue(2), WordValue(3)>>
               = <<\H01f4, \H6667, \H5eb9>> =>
            /\ result.val.co2_ppm = 500
            /\ F32Floor(F32Mul(result.val.temp_celsius, F32FromInt(100))) = 2500
            /\ F32Floor(F32Mul(result.val.humidity_percent, F32FromInt(100)))
                   = 3700

\* C6 witness: the response 01 F4 33 66 67 A2 5E B9 3C has been decoded
C6_Witness ==
    /\ Done("scd4x.read_measurement")
    /\ answer.ok
    /\ answer.data = <<\H01, \Hf4, \H33, \H66, \H67, \Ha2, \H5e, \Hb9, \H3c>>
    /\ result.tag = "Ok"
    /\ result.val.co2_ppm = 500

\* the opcode that the command table of the specification gives each
\* operation of the VOC chip
VocTable(name) ==
    CASE name = "sgp40.get_serial_number" -> <<\H36, \H82>>
      [] name = "sgp40.turn_heater_off" -> <<\H36, \H15>>
      [] name = "sgp40.self_test" -> <<\H28, \H0e>>
      [] name = "sgp40.measure_raw_signal" -> <<\H26, \H0f>>

VocOps == {"sgp40.get_serial_number", "sgp40.turn_heater_off",
           "sgp40.self_test", "sgp40.measure_raw_signal"}

\* C7: every bus transaction of the VOC chip's driver goes to address 59 and
\* starts with the opcode of the table for its operation: get_serial_number
\* 3682, turn_heater_off 3615, self_test 280E, measure_raw_signal 260F.
C7_VocOpcodes ==
    (pc = "done" /\ op \in VocOps) =>
        \A i \in 1..Len(tx) :
            /\ tx[i].addr = \H59
            /\ SubSeq(tx[i].write, 1, 2) = VocTable(op)

\* C8: the wire word made of two data bytes and their checksum passes
\* check_crc, and with any single one of its 24 bits flipped it is rejected
\* with InvalidCrc.
C8_SingleBitFlips ==
    Done("check_crc") =>
        /\ args[3] = 0 => result = Ok(<<>>)
        /\ args[3] \in 1..24 => result = ErrInvalidCrc

\* C8 witness: a word with one bit of its first data byte flipped has been
\* rejected
C8_Witness == Done("check_crc") /\ args[3] = 5 /\ result = ErrInvalidCrc

F32Less(a, b) == ~F32Leq(b, a)

\* C9: the tick conversions do not decrease when their input grows and stay
\* in 0..65535: humidity below 0 gives 0 and above 100 gives 65535,
\* temperature below -45 gives 0 and above 130 gives 65535; humidity 0, 50,
\* 100 give 0, 32767, 65535 and temperature -45, 25, 130 give 0, 26214, 65535.
C9_TickConversions ==
    (pc = "done" /\ op \in {"rh_to_ticks", "temp_to_ticks"}) =>
        LET x == args[1]
            tx1 == result.val[1]
            tx2 == result.val[2]
        IN
        /\ tx1 <= tx2
        /\ tx1 \in 0..65535
        /\ op = "rh_to_ticks" =>
            /\ F32Less(x, F32FromInt(0)) => tx1 = 0
            /\ F32Less(F32FromInt(100), x) => tx1 = 65535
            /\ x = F32FromInt(0) => tx1 = 0
            /\ x = F32FromInt(50) => tx1 = 32767
            /\ x = F32FromInt(100) => tx1 = 65535
        /\ op = "temp_to_ticks" =>
            /\ F32Less(x, F32FromInt(-45)) => tx1 = 0
            /\ F32Less(F32FromInt(130), x) => tx1 = 65535
            /\ x = F32FromInt(-45) => tx1 = 0
            /\ x = F32FromInt(25) => tx1 = 26214
            /\ x = F32FromInt(130) => tx1 = 65535

\* C9 witness: humidity 50 has been converted to 32767 and a larger humidity
\* to more
C9_Witness ==
    /\ Done("rh_to_ticks")
    /\ args[1] = F32FromInt(50)
    /\ F32Less(args[1], args[2])
    /\ result.val[1] = 32767
    /\ result.val[2] > 32767

\* C10: start_self_test issues exactly one transaction, a write of the two
\* bytes of the self-test opcode with no read phase; read_self_test_result
\* issues exactly one transaction, a read of one wire word with no write
\* phase, and returns true iff the checksum-valid word is 0.
C10_SplitSelfTest ==
    /\ Done("scd4x.start_self_test") =>
           tx = <<Transaction(\H62, <<\H36, \H39>>, 0)>>
    /\ Done("scd4x.read_self_test_result") =>
        /\ tx = <<Transaction(\H62, <<>>, 3)>>
        /\ GoodWord("scd4x.read_self_test_result") =>
            /\ result = Ok(WordValue(1) = 0)
            /\ answer.data = <<\H00, \H00, \H81>> => result = Ok(TRUE)
            /\ answer.data = <<\H14, \H40, \H51>> => result = Ok(FALSE)

\* C10 witness: the result word 1400, whose low byte is 0, has been read
\* with no write phase and reported as a failed self-test
C10_Witness ==
    /\ GoodWord("scd4x.read_self_test_result")
    /\ WordValue(1) = \H1400
    /\ tx[1].write = <<>>
    /\ result = Ok(FALSE)

\* what a query returns, from the bus outcome of the call alone
QueryOutcome ==
    IF ~answer.ok THEN ErrI2c(answer.err)
    ELSE IF ~AllGood THEN ErrInvalidCrc
    ELSE IF NWords = 1 THEN Ok(WordValue(1))
    ELSE Ok(<<WordValue(1), WordValue(2), WordValue(3)>>)

\* C11: in a sequence of driver calls, whatever the call before returned, a
\* call whose bus call failed returns the bus's error and a call that read
\* a word with a wrong checksum returns InvalidCrc, with no transaction
\* after the one that failed; every query issues exactly one bus
\* transaction, whether it succeeds or fails, and its result is determined
\* by the bus outcome of that call alone.
C11_NoRetry ==
    pc = "done" =>
        /\ ~answer.ok => (result = ErrI2c(answer.err) /\ Len(tx) = 1)
        /\ (answer.ok /\ ~AllGood) => (result = ErrInvalidCrc /\ Len(tx) = 1)
        /\ IsQuery => (Len(tx) = 1 /\ result = QueryOutcome)

\* C11 witness: after a call that succeeded, a three-word query met a wrong
\* checksum and returned InvalidCrc with one transaction issued
C11_Witness ==
    /\ Done("sensor.read_three_words")
    /\ last = "Ok"
    /\ answer.ok
    /\ ~AllGood
    /\ result = ErrInvalidCrc
    /\ Len(tx) = 1

\* The reference CRC-8 on bit vectors <<bit 0, ..., bit 7>>: the bits of a
\* byte, the byte of a bit vector, XOR, and the shift to the left that drops
\* bit 7
RefBits(n) ==
    <<n % 2, (n \div 2) % 2, (n \div 4) % 2, (n \div 8) % 2,
      (n \div 16) % 2, (n \div 32) % 2, (n \div 64) % 2, (n \div 128) % 2>>
RefByte(v) ==
    v[1] + 2 * v[2] + 4 * v[3] + 8 * v[4]
    + 16 * v[5] + 32 * v[6] + 64 * v[7] + 128 * v[8]
RefXor(v, w) == [i \in 1..8 |-> IF v[i] = w[i] THEN 0 ELSE 1]
RefShl(v) == <<0, v[1], v[2], v[3], v[4], v[5], v[6], v[7]>>

\* one iteration: if bit 7 is set, shift left and XOR 0x31, else shift left
RefStep(n) ==
    IF RefBits(n)[8] = 1
    THEN RefByte(RefXor(RefShl(RefBits(n)), RefBits(\H31)))
    ELSE RefByte(RefShl(RefBits(n)))

\* XOR the byte into the accumulator, then 8 iterations
RefFeed(acc, byte) ==
    LET x == RefByte(RefXor(RefBits(acc), RefBits(byte))) IN
    RefStep(RefStep(RefStep(RefStep(RefStep(RefStep(RefStep(RefStep(x))))))))

\* the accumulator starts at 0xFF and takes the bytes in order
RefCrc8(b0, b1) == RefFeed(RefFeed(\Hff, b0), b1)

\* C12: the checksum of two data bytes is the reference CRC-8 (accumulator
\* from 0xFF, each byte XORed in and followed by 8 shift steps with the
\* polynomial 0x31, in 8 bits); the data bytes BE EF give 92 and BE 01 do
\* not; the result depends on the order of the bytes: EF BE do not give
\* what BE EF give, and two different bytes give the same checksum in both
\* orders only when they differ by EF.
C12_ReferenceCrc ==
    Done("crc") =>
        LET b0 == args[1][1]
            b1 == args[1][2]
        IN
        /\ result = Ok(RefCrc8(b0, b1))
        /\ (b0 = \Hbe /\ b1 = \Hef) => result = Ok(\H92)
        /\ (b0 = \Hbe /\ b1 = \H01) => result # Ok(\H92)
        /\ (b0 = \Hef /\ b1 = \Hbe) => result # Ok(\H92)
        /\ (b0 # b1 /\ Xor8(b0, b1) # \Hef) => result # Ok(crc(<<b1, b0>>))

\* C12 witness: the checksum of the data bytes BE EF has been computed as 92
C12_Witness ==
    /\ Done("crc")
    /\ args[1][1] = \Hbe
    /\ args[1][2] = \Hef
    /\ result = Ok(\H92)

\* an f32 value a as <<n, k>> with |a| = n * 2^-k, n odd or k = 0
RECURSIVE Strip(_, _)
Strip(n, k) ==
    IF k >= 8 /\ n % 256 = 0 THEN Strip(n \div 256, k - 8)
    ELSE IF k >= 1 /\ n % 2 = 0 THEN Strip(n \div 2, k - 1)
    ELSE <<n, k>>

\* the values whose scaled value the integers of the checker can hold
Small(a) == a.m = 0 \/ (a.e < 0 /\ Strip(a.m, 0 - a.e)[1] < 8192
                                /\ Strip(a.m, 0 - a.e)[2] <= 4)

\* the scaled values as exact fractions <<numerator, denominator>>:
\* humidity * 65535 / 100 and (temperature + 45) * 65535 / 175
ExactRh(a) ==
    IF a.m = 0 THEN <<0, 100>>
    ELSE LET r == Strip(a.m, 0 - a.e) IN
         <<a.sign * r[1] * 65535, 100 * (2^(r[2]))>>
ExactTemp(a) ==
    IF a.m = 0 THEN <<45 * 65535, 175>>
    ELSE LET r == Strip(a.m, 0 - a.e) IN
         <<(a.sign * r[1] + 45 * (2^(r[2]))) * 65535, 175 * (2^(r[2]))>>

\* a fraction within 0..65535, the nearest integer to it, its integer part
\* limited to 0..65535, and whether it is an integer or at least 1/128 away
\* from one (f32 rounding then does not change its integer part)
InRange16(q) == 0 <= q[1] /\ q[1] <= 65535 * q[2]
Nearest(q) == (2 * q[1] + q[2]) \div (2 * q[2])
Truncated16(q) ==
    IF q[1] < 0 THEN 0
    ELSE IF q[1] >= 65535 * q[2] THEN 65535
    ELSE q[1] \div q[2]
Clear(q) ==
    \/ q[1] % q[2] = 0
    \/ (((q[1] % q[2]) * 128) \div q[2]) \in 1..126

\* the two argument words that a call of measure_raw_signal wrote after the
\* opcode
SentRh == from_be_bytes(tx[1].write[3], tx[1].write[4])
SentTemp == from_be_bytes(tx[1].write[6], tx[1].write[7])

\* C13 as stated: measure_raw_signal sends humidity ticks = round(humidity
\* * 65535/100) and temperature ticks = round((temperature + 45) *
\* 65535/175), the nearest integers to the scaled values, humidity first and
\* temperature second, and returns the one checksum-valid result word
\* unconverted.
C13_RoundedTicks ==
    (Done("sgp40.measure_raw_signal") /\ Small(args[1]) /\ Small(args[2])) =>
        /\ Len(tx) = 1
        /\ Len(tx[1].write) = 8
        /\ InRange16(ExactRh(args[1])) => SentRh = Nearest(ExactRh(args[1]))
        /\ InRange16(ExactTemp(args[2])) =>
               SentTemp = Nearest(ExactTemp(args[2]))
        /\ GoodWord("sgp40.measure_raw_signal") => result = Ok(WordValue(1))

\* C13 amended: measure_raw_signal sends humidity ticks = humidity *
\* 65535/100 and temperature ticks = (temperature + 45) * 65535/175, each
\* computed in f32, cut to its integer part (not rounded to the nearest
\* integer: 50 percent gives 32767) and limited to 0..65535, each as a
\* big-endian word followed by its checksum, humidity first and temperature
\* second, and returns the one checksum-valid result word unconverted.
C13_TruncatedTicks ==
    (Done("sgp40.measure_raw_signal") /\ Small(args[1]) /\ Small(args[2])) =>
        /\ Len(tx) = 1
        /\ Len(tx[1].write) = 8
        /\ tx[1].write[5] = RefCrc8(tx[1].write[3], tx[1].write[4])
        /\ tx[1].write[8] = RefCrc8(tx[1].write[6], tx[1].write[7])
        /\ Clear(ExactRh(args[1])) => SentRh = Truncated16(ExactRh(args[1]))
        /\ Clear(ExactTemp(args[2])) =>
               SentTemp = Truncated16(ExactTemp(args[2]))
        /\ args[1] = F32FromInt(50) => SentRh = 32767
        /\ GoodWord("sgp40.measure_raw_signal") => result = Ok(WordValue(1))

\* C13 witness: measure_raw_signal(50, 25) has sent the ticks 32767 and
\* 26214 and returned the checksum-valid word it read
C13_Witness ==
    /\ GoodWord("sgp40.measure_raw_signal")
    /\ args = <<F32FromInt(50), F32FromInt(25)>>
    /\ SentRh = 32767
    /\ SentTemp = 26214
    /\ result = Ok(WordValue(1))

====
